---- MODULE Spec2Model ----
(***************************************************************************)
(* A model of js/particles.js: one ParticleSystem driven by run(), its     *)
(* owner writing configuration fields between timer ticks, the two         *)
(* particle animators and the two particle renderers.                      *)
(*                                                                         *)
(* JavaScript numbers are modelled as exact rationals [n, d] in lowest     *)
(* terms (floating-point rounding is not modelled).  JavaScript objects    *)
(* that the code copies or shares ({x, y} and {r, g, b, a} literals) live  *)
(* in a heap and are named by their index, so that aliasing is visible.    *)
(***************************************************************************)
EXTENDS Integers, Sequences, FiniteSets, TLC

(***************************************************************************)
(* Bounds of the model.                                                    *)
(***************************************************************************)
\* number of update() calls explored
MaxUpdates == 3
\* number of configuration writes, resize() calls and surface size changes
MaxWrites == 2
\* the red channels formatted are 10, 10.1, ... up to 10 + MaxTenths / 10
MaxTenths == 10

(***************************************************************************)
(* Numbers.                                                                *)
(***************************************************************************)
RECURSIVE GCD(_, _)
GCD(a, b) == IF b = 0 THEN a ELSE GCD(b, a % b)

Abs(i) == IF i < 0 THEN -i ELSE i

\* the number n/d (d > 0) in lowest terms
Q(n, d) == LET g == GCD(Abs(n), d) IN [n |-> n \div g, d |-> d \div g]

QInt(i) == [n |-> i, d |-> 1]

\* a + b
QAdd(a, b) ==
    LET g == GCD(a.d, b.d)
    IN  Q(a.n * (b.d \div g) + b.n * (a.d \div g), (a.d \div g) * b.d)

\* a * b
QMul(a, b) ==
    LET g1 == GCD(Abs(a.n), b.d)
        g2 == GCD(Abs(b.n), a.d)
    IN  Q((a.n \div g1) * (b.n \div g2), (a.d \div g2) * (b.d \div g1))

\* a <= b
QLeq(a, b) ==
    LET g == GCD(a.d, b.d)
    IN  a.n * (b.d \div g) <= b.n * (a.d \div g)

\* Math.max(a, b)
QMax(a, b) == IF QLeq(a, b) THEN b ELSE a

\* Math.floor in place of Math.round
QFloor(a) == a.n \div a.d

\* Math.round(a): the integer nearest to a, halves rounded up
QRound(a) == (2 * a.n + a.d) \div (2 * a.d)

\* the conversion of a non-negative number to an unsigned long (canvas.width)
QTrunc(a) == a.n \div a.d

\* a ^ k
RECURSIVE QPow(_, _)
QPow(a, k) == IF k = 0 THEN QInt(1) ELSE QMul(a, QPow(a, k - 1))

Min(a, b) == IF a <= b THEN a ELSE b

\* F(v), with v evaluated once
Let(v, F(_)) == CHOOSE r \in {F(x) : x \in {v}} : TRUE

(***************************************************************************)
(* Values of the program and of its environment.                           *)
(***************************************************************************)
XY(x, y) == [x |-> x, y |-> y]
RGBA(r, g, b, a) == [r |-> r, g |-> g, b |-> b, a |-> a]

\* the constructor's defaults
DefaultBackgroundColor == RGBA(QInt(0), QInt(0), QInt(0), QInt(1))
DefaultMaxParticles == 500
DefaultParticlesPerUpdate == 1
DefaultParticleSpeed == 0
DefaultParticleSize == XY(QInt(1), QInt(1))
DefaultParticleColor == RGBA(QInt(255), QInt(255), QInt(255), QInt(1))
DefaultParticleOrigin == XY(Q(1, 2), Q(1, 2))

\* the factors of the animators and of resize()
SizeDecay == Q(49, 50)
AlphaDecay == Q(99, 100)
RedGrowth == Q(51, 50)
GreenBlueDecay == Q(49, 50)
ResizeFactor == Q(99, 100)

\* the values the owner writes to the configuration fields
MaxParticlesVals == {-1, 0, 1, 3}
PerUpdateVals == {0, 2}
SpeedVals == {4}
SizeVals == {XY(QInt(2), QInt(4))}
ColorVals == {RGBA(QInt(10), Q(41, 2), QInt(30), Q(1, 2))}
OriginVals == {XY(Q(1, 4), Q(3, 4))}
BackgroundVals == {RGBA(QInt(10), QInt(20), QInt(30), Q(1, 2))}
RendererVals == {"round", "square"}
AnimatorVals == {"default", "fancy"}

\* the values the two calls of Math.random() in the constructor of a Particle
\* return, each in [0, 1)
RandomVals == {<<QInt(0), Q(3, 4)>>, <<Q(3, 4), Q(1, 4)>>}

\* the environment: the canvas element's size and the window's inner size
CanvasSize == XY(200, 100)
WindowSize == XY(400, 200)
\* the sizes a script of the page gives the canvas while the system runs
SurfaceSizes == {XY(300, 150)}
\* canvas.offsetLeft and canvas.offsetTop
CanvasOffset == XY(10, 10)
\* the mouse events of the page: left of, above, on, and beyond the canvas
PointerEvents ==
    [clientX : {5, 10, 110, 210, 250}, clientY : {5, 10, 60, 110, 150}]

\* a 2D context's state when it is created
DefaultFillStyle == <<"rgba(", 0, 0, 0, QInt(1)>>
DefaultComposite == "source-over"

(***************************************************************************)
(* The state.                                                              *)
(***************************************************************************)
VARIABLES
    \* the environment
    surfaceExists,      \* whether document.getElementById(canvasId) finds a canvas
    canvas,             \* the canvas element's width and height
    context,            \* the 2D context: fillStyle, globalCompositeOperation, saved states
    heap,               \* the {x, y} objects (heap.xy) and {r, g, b, a} objects (heap.rgba)
    \* the ParticleSystem's public fields (this.*)
    autoResize, backgroundColor, maxParticles, particlesPerUpdate, particleSpeed,
    particleSize, particleColor, particleOrigin, particleRenderer, particleAnimator,
    \* the ParticleSystem's private variables (the constructor's closure)
    particles, origin, width, height,
    \* the position of the program
    phase,              \* "new", "failed" (run() threw), "running", "hung" (update() never returns)
    pc,                 \* the next call of loop(): "draw" or "update"
    \* history: what has happened, recorded to state the properties
    nDraws, nUpdates, nWrites,
    lastOp,             \* the operation that led to this state
    fixedSinceRun,      \* maxParticles and particlesPerUpdate were not written since run()
    born,               \* per spawned particle: its state when spawned and how it was aged
    frame,              \* what the last draw() painted, and what initialize() saved
    lastRun             \* what the last update() did

envVars == <<surfaceExists, canvas, context, heap>>
cfgVars == <<autoResize, backgroundColor, maxParticles, particlesPerUpdate, particleSpeed,
             particleSize, particleColor, particleOrigin, particleRenderer, particleAnimator>>
sysVars == <<particles, origin, width, height>>
histVars == <<nDraws, nUpdates, nWrites, lastOp, fixedSinceRun, born, frame, lastRun>>
vars == <<envVars, cfgVars, sysVars, phase, pc, histVars>>

\* the owner runs between the timer's callbacks, and before run()
BetweenTicks == phase = "new" \/ (phase = "running" /\ pc = "draw")

(***************************************************************************)
(* Objects.                                                                *)
(***************************************************************************)
\* a new {x, y} object holding v; its reference is Len of the new heap.xy
NewXY(H, v) == [H EXCEPT !.xy = Append(@, v)]
NewRGBA(H, v) == [H EXCEPT !.rgba = Append(@, v)]

\* the object jQuery.extend(true, {}, src) returns: the fresh target, not src
ExtendShared(src, fresh) == src
Extend(src, fresh) == fresh

\* Array.prototype.shift(): removes the first element; an empty array stays empty
ShiftPop(list) == IF list = <<>> THEN <<>> ELSE SubSeq(list, 1, Len(list) - 1)
Shift(list) == IF list = <<>> THEN <<>> ELSE Tail(list)

\* the string rgbaToString(color) builds: "rgba(" R ", " G ", " B ", " a ")"
rgbaToString(color) ==
    <<"rgba(", QRound(color.r), QRound(color.g), QRound(color.b), color.a>>

(***************************************************************************)
(* Particle: the constructor.  r1 and r2 are the two values of             *)
(* Math.random().  The result is the heap with the new velocity object     *)
(* and the particle.                                                       *)
(***************************************************************************)
Half == Q(1, 2)

Velocity(r1, r2, speed) ==
    XY(QMul(QAdd(r1, QMul(QInt(-1), Half)), QInt(speed)),
       QMul(QAdd(r2, QMul(QInt(-1), Half)), QInt(speed)))

Particle(H, xypos, xysize, rgbacolor, speed, r1, r2) ==
    [heap |-> NewXY(H, Velocity(r1, r2, speed)),
     particle |-> [pos |-> xypos, size |-> xysize, color |-> rgbacolor,
                   velocity |-> Len(H.xy) + 1]]

(***************************************************************************)
(* The particle animators.  A step is the body of update's loop for one    *)
(* particle p: it assigns to the objects p refers to.                      *)
(***************************************************************************)
MoveAndShrink(H, p) ==
    [H EXCEPT !.xy =
        [@ EXCEPT ![p.pos]  = XY(QAdd(@.x, H.xy[p.velocity].x), QAdd(@.y, H.xy[p.velocity].y)),
                  ![p.size] = XY(QMul(@.x, SizeDecay), QMul(@.y, SizeDecay))]]

\* a step that also decays the velocity, as a drag term would
DefaultStepDrag(H, p) ==
    LET H1 == MoveAndShrink(H, p)
    IN  [H1 EXCEPT !.xy = [@ EXCEPT ![p.velocity] = XY(QMul(@.x, SizeDecay), QMul(@.y, SizeDecay))]]

\* a step that moves the particle and leaves its size alone
DefaultStepNoShrink(H, p) ==
    [H EXCEPT !.xy =
        [@ EXCEPT ![p.pos] = XY(QAdd(@.x, H.xy[p.velocity].x), QAdd(@.y, H.xy[p.velocity].y))]]

DefaultStep(H, p) == MoveAndShrink(H, p)

\* a fancy step that keeps the red channel within 0..255
FancyStepClamped(H, p) ==
    LET H1 == MoveAndShrink(H, p)
    IN  [H1 EXCEPT !.rgba =
            [@ EXCEPT ![p.color] =
                RGBA(IF QLeq(QMul(@.r, RedGrowth), QInt(255)) THEN QMul(@.r, RedGrowth)
                     ELSE QInt(255),
                     QMul(@.g, GreenBlueDecay), QMul(@.b, GreenBlueDecay),
                     QMul(@.a, AlphaDecay))]]

FancyStep(H, p) ==
    LET H1 == MoveAndShrink(H, p)
    IN  [H1 EXCEPT !.rgba =
            [@ EXCEPT ![p.color] = RGBA(QMul(@.r, RedGrowth), QMul(@.g, GreenBlueDecay),
                                        QMul(@.b, GreenBlueDecay), QMul(@.a, AlphaDecay))]]

\* a loop that starts one particle late and never ages the first of the list
RECURSIVE AnimatorUpdateLate(_, _, _, _)
AnimatorUpdateLate(animator, H, list, i) ==
    IF i >= Len(list) THEN H
    ELSE Let(IF animator = "fancy" THEN FancyStep(H, list[i + 1])
             ELSE DefaultStep(H, list[i + 1]),
             LAMBDA h : AnimatorUpdateLate(animator, h, list, i + 1))

\* particleAnimator.update(list): the loop over the list, from index i on
RECURSIVE AnimatorUpdate(_, _, _, _)
AnimatorUpdate(animator, H, list, i) ==
    IF i > Len(list) THEN H
    ELSE Let(IF animator = "fancy" THEN FancyStep(H, list[i]) ELSE DefaultStep(H, list[i]),
             LAMBDA h : AnimatorUpdate(animator, h, list, i + 1))

(***************************************************************************)
(* The particle renderers.  A draw assigns context.fillStyle and paints    *)
(* one shape; the result is the context and the shape painted.             *)
(***************************************************************************)
Painted(ctx, p, shape, x, y, w, h) ==
    [id |-> p.id, shape |-> shape, x |-> x, y |-> y, w |-> w, h |-> h,
     style |-> ctx.fillStyle, composite |-> ctx.composite]

SquareDraw(ctx, H, p) ==
    LET c1 == [ctx EXCEPT !.fillStyle = rgbaToString(H.rgba[p.color])]
    IN  [context |-> c1,
         painted |-> Painted(c1, p, "rect", H.xy[p.pos].x, H.xy[p.pos].y,
                             H.xy[p.size].x, H.xy[p.size].y)]

RoundDraw(ctx, H, p) ==
    LET c1 == [ctx EXCEPT !.fillStyle = rgbaToString(H.rgba[p.color])]
        radius == QMul(QMax(H.xy[p.size].x, H.xy[p.size].y), Half)
    IN  [context |-> c1,
         painted |-> Painted(c1, p, "arc", QAdd(H.xy[p.pos].x, radius),
                             QAdd(H.xy[p.pos].y, radius), radius, radius)]

\* a loop that hands the particles over from the last to the first
RECURSIVE DrawLoopBackwards(_, _, _, _, _, _)
DrawLoopBackwards(ctx, H, list, renderer, i, out) ==
    IF i > Len(list) THEN [context |-> ctx, painted |-> out]
    ELSE Let(IF renderer = "square" THEN SquareDraw(ctx, H, list[Len(list) + 1 - i])
             ELSE RoundDraw(ctx, H, list[Len(list) + 1 - i]),
             LAMBDA d : DrawLoopBackwards(d.context, H, list, renderer, i + 1,
                                          Append(out, d.painted)))

\* the loop of the animators' draw over the list, from index i on
RECURSIVE DrawLoop(_, _, _, _, _, _)
DrawLoop(ctx, H, list, renderer, i, out) ==
    IF i > Len(list) THEN [context |-> ctx, painted |-> out]
    ELSE Let(IF renderer = "square" THEN SquareDraw(ctx, H, list[i])
             ELSE RoundDraw(ctx, H, list[i]),
             LAMBDA d : DrawLoop(d.context, H, list, renderer, i + 1, Append(out, d.painted)))

\* particleAnimator.draw(list, renderer)
AnimatorDraw(animator, ctx, H, list, renderer) ==
    DrawLoop(IF animator = "fancy" THEN [ctx EXCEPT !.composite = "lighter"] ELSE ctx,
             H, list, renderer, 1, <<>>)

\* context.save() and context.restore()
Save(ctx) ==
    [ctx EXCEPT !.saved = <<[fillStyle |-> ctx.fillStyle, composite |-> ctx.composite]>> \o @]
Restore(ctx) ==
    IF ctx.saved = <<>> THEN ctx
    ELSE [fillStyle |-> Head(ctx.saved).fillStyle, composite |-> Head(ctx.saved).composite,
          saved |-> Tail(ctx.saved)]

(***************************************************************************)
(* update(): the spawn loop and the trimming loop.                         *)
(***************************************************************************)
\* a spawn origin that is the fraction itself, not scaled to the surface
SpawnOriginUnscaled(w, h, o) == o

\* { x : width * this.particleOrigin.x, y : height * this.particleOrigin.y }
SpawnOrigin(w, h, o) == XY(QMul(QInt(w), o.x), QMul(QInt(h), o.y))

\* the number of iterations of  for (i = 0; i < particlesPerUpdate; i++)
SpawnCount(perUpdate) == IF perUpdate > 0 THEN perUpdate ELSE 0

\* a spawn whose particle is then aged once, as if spawning came before aging
SpawnOneAged(st, o, size, color, speed, r, at) ==
    Let(NewRGBA(NewXY(NewXY(st.heap, st.heap.xy[o]), st.heap.xy[size]), st.heap.rgba[color]),
        LAMBDA H3 :
        Let(Particle(H3, Len(H3.xy) - 1, Len(H3.xy), Len(H3.rgba), speed, r[1], r[2]),
            LAMBDA made :
            Let([id |-> Len(st.born) + 1] @@ made.particle,
                LAMBDA p :
                Let(MoveAndShrink(made.heap, p),
                    LAMBDA H4 :
                    [heap |-> H4,
                     list |-> Append(st.list, p),
                     born |-> Append(st.born,
                                     [pos |-> H4.xy[p.pos], size |-> H4.xy[p.size],
                                      color |-> H4.rgba[p.color],
                                      velocity |-> H4.xy[p.velocity],
                                      at |-> at, nDefault |-> 0, nFancy |-> 0, shown |-> -1])]))))

\* One iteration of the spawn loop: the three copies, the constructor, the push.
\* st is [heap, list, born]; o, size, color are the references the copies are
\* made of; r is the pair of Math.random() values.
SpawnOne(st, o, size, color, speed, r, at) ==
    Let(NewRGBA(NewXY(NewXY(st.heap, st.heap.xy[o]), st.heap.xy[size]), st.heap.rgba[color]),
        LAMBDA H3 :
        Let(Particle(H3, Extend(o, Len(H3.xy) - 1), Extend(size, Len(H3.xy)),
                     Extend(color, Len(H3.rgba)), speed, r[1], r[2]),
            LAMBDA made :
            Let([id |-> Len(st.born) + 1] @@ made.particle,
                LAMBDA p :
                [heap |-> made.heap,
                 list |-> Append(st.list, p),
                 born |-> Append(st.born,
                                 [pos |-> made.heap.xy[p.pos], size |-> made.heap.xy[p.size],
                                  color |-> made.heap.rgba[p.color],
                                  velocity |-> made.heap.xy[p.velocity],
                                  at |-> at, nDefault |-> 0, nFancy |-> 0, shown |-> -1])])))

RECURSIVE SpawnLoop(_, _, _, _, _, _, _, _)
SpawnLoop(st, o, size, color, speed, rnd, at, i) ==
    IF i > Len(rnd) THEN st
    ELSE Let(SpawnOne(st, o, size, color, speed, rnd[i], at),
             LAMBDA t : SpawnLoop(t, o, size, color, speed, rnd, at, i + 1))

\* a trim that removes one particle per update
TrimOnce(list, max) ==
    [hung |-> FALSE, list |-> IF Len(list) > max THEN Shift(list) ELSE list]

\* a trim that stops one particle above the cap
TrimLate(list, max) ==
    [hung |-> FALSE,
     list |-> IF Len(list) > max + 1 /\ max >= 0
              THEN SubSeq(list, Len(list) - max, Len(list)) ELSE list]

\* while (particles.length > this.maxParticles) particles.shift();
\* an iteration that leaves the array as it was, with the condition still true,
\* repeats for ever: the loop hangs
RECURSIVE TrimLoop(_, _)
TrimLoop(list, max) ==
    IF Len(list) > max
    THEN IF Shift(list) = list THEN [hung |-> TRUE, list |-> list]
         ELSE TrimLoop(Shift(list), max)
    ELSE [hung |-> FALSE, list |-> list]

Ids(list) == [i \in 1..Len(list) |-> list[i].id]
IdSet(list) == {list[i].id : i \in 1..Len(list)}

(***************************************************************************)
(* initialize() and resize().                                              *)
(***************************************************************************)
\* an initialize() that goes on without a canvas
InitializeNeverThrows(exists) == FALSE

\* this.canvas.getContext('2d') throws when getElementById returned null
InitializeThrows(exists) == ~exists

\* the canvas after resize()
Resized(c, auto) ==
    IF auto THEN XY(QTrunc(QMul(QInt(WindowSize.x), ResizeFactor)),
                    QTrunc(QMul(QInt(WindowSize.y), ResizeFactor)))
    ELSE c

FreshContext ==
    [fillStyle |-> DefaultFillStyle, composite |-> DefaultComposite, saved |-> <<>>]

NoFrame ==
    [fillStyle |-> DefaultFillStyle, composite |-> DefaultComposite, w |-> 0, h |-> 0,
     animator |-> "none", renderer |-> "none", painted |-> <<>>, updates |-> 0,
     saved |-> [fillStyle |-> DefaultFillStyle, composite |-> DefaultComposite]]

NoRun == [animator |-> "none", aged |-> <<>>, spawned |-> <<>>, evicted |-> <<>>]

(***************************************************************************)
(* The initial state: a ParticleSystem just constructed.                   *)
(***************************************************************************)
Init ==
    /\ surfaceExists \in BOOLEAN
    /\ canvas = CanvasSize
    /\ context = FreshContext
    /\ heap = [xy |-> <<DefaultParticleSize, DefaultParticleOrigin, XY(QInt(0), QInt(0))>>,
               rgba |-> <<DefaultParticleColor>>]
    /\ autoResize = FALSE
    /\ backgroundColor = DefaultBackgroundColor
    /\ maxParticles = DefaultMaxParticles
    /\ particlesPerUpdate = DefaultParticlesPerUpdate
    /\ particleSpeed = DefaultParticleSpeed
    /\ particleSize = 1
    /\ particleColor = 1
    /\ particleOrigin = 2
    /\ particleRenderer = "round"
    /\ particleAnimator = "default"
    /\ particles = <<>>
    /\ origin = 3
    /\ width = 0
    /\ height = 0
    /\ phase = "new"
    /\ pc = "draw"
    /\ nDraws = 0
    /\ nUpdates = 0
    /\ nWrites = 0
    /\ lastOp = "new"
    /\ fixedSinceRun = TRUE
    /\ born = <<>>
    /\ frame = NoFrame
    /\ lastRun = NoRun

(***************************************************************************)
(* run(): initialize(), then setInterval(loop, 30).                        *)
(***************************************************************************)
Run ==
    /\ phase = "new"
    /\ lastOp' = "run"
    /\ IF InitializeThrows(surfaceExists)
       THEN /\ phase' = "failed"
            /\ UNCHANGED <<canvas, context, width, height, frame>>
       ELSE LET c == Resized(canvas, autoResize)
                \* assigning canvas.width resets the context
                ctx == IF autoResize THEN FreshContext ELSE context
            IN  /\ canvas' = c
                /\ width' = c.x
                /\ height' = c.y
                /\ context' = Save([ctx EXCEPT !.fillStyle = rgbaToString(backgroundColor)])
                /\ frame' = [frame EXCEPT !.saved = Head(context'.saved)]
                /\ phase' = "running"
    /\ UNCHANGED <<surfaceExists, heap, cfgVars, particles, origin, pc,
                   nDraws, nUpdates, nWrites, fixedSinceRun, born, lastRun>>

(***************************************************************************)
(* loop(): me.draw(); me.update().  pc is the position in loop().          *)
(***************************************************************************)
\* the history of the particles of list, each now shown by a draw(): shown is
\* how many times a particle was aged when it was first drawn, -1 before that
Shown(b, list) ==
    [id \in 1..Len(b) |->
        IF id \in IdSet(list) /\ b[id].shown = -1
        THEN [b[id] EXCEPT !.shown = b[id].nDefault + b[id].nFancy]
        ELSE b[id]]

Draw ==
    /\ phase = "running"
    /\ pc = "draw"
    /\ nDraws <= MaxUpdates
    /\ \E c1 \in {Restore(context)} :
       \* clearRect and fillRect paint with c1; then save()
       \E d \in {AnimatorDraw(particleAnimator, Save(c1), heap, particles, particleRenderer)} :
           /\ context' = d.context
           /\ frame' = [fillStyle |-> c1.fillStyle, composite |-> c1.composite,
                        w |-> width, h |-> height,
                        animator |-> particleAnimator, renderer |-> particleRenderer,
                        painted |-> d.painted, updates |-> nUpdates,
                        saved |-> frame.saved]
    /\ born' = Shown(born, particles)
    /\ pc' = "update"
    /\ nDraws' = nDraws + 1
    /\ lastOp' = "draw"
    /\ UNCHANGED <<surfaceExists, canvas, heap, cfgVars, sysVars, phase,
                   nUpdates, nWrites, fixedSinceRun, lastRun>>

\* the history of the particles of list, each aged once more by animator
Aged(b, list, animator) ==
    [id \in 1..Len(b) |->
        IF id \in IdSet(list)
        THEN IF animator = "fancy" THEN [b[id] EXCEPT !.nFancy = @ + 1]
             ELSE [b[id] EXCEPT !.nDefault = @ + 1]
        ELSE b[id]]

Update ==
    /\ phase = "running"
    /\ pc = "update"
    /\ nUpdates < MaxUpdates
    /\ \E rnd \in [1..SpawnCount(particlesPerUpdate) -> RandomVals] :
       \E H1 \in {AnimatorUpdate(particleAnimator, heap, particles, 1)} :
       \E H2 \in {NewXY(H1, SpawnOrigin(width, height, H1.xy[particleOrigin]))} :
       \E sp \in {SpawnLoop([heap |-> H2, list |-> particles,
                              born |-> Aged(born, particles, particleAnimator)],
                             Len(H2.xy), particleSize, particleColor, particleSpeed, rnd,
                             nUpdates + 1, 1)} :
       \E tr \in {TrimLoop(sp.list, maxParticles)} :
            /\ heap' = sp.heap
            /\ origin' = Len(H2.xy)
            /\ particles' = tr.list
            /\ born' = sp.born
            /\ lastRun' = [animator |-> particleAnimator,
                           aged |-> Ids(particles),
                           spawned |-> [i \in 1..Len(rnd) |-> Len(born) + i],
                           evicted |-> Ids(SelectSeq(sp.list,
                                           LAMBDA p : p.id \notin IdSet(tr.list)))]
            /\ IF tr.hung
               THEN /\ phase' = "hung"
                    /\ lastOp' = "hang"
                    /\ UNCHANGED <<pc, nUpdates>>
               ELSE /\ phase' = phase
                    /\ lastOp' = "update"
                    /\ pc' = "draw"
                    /\ nUpdates' = nUpdates + 1
    /\ UNCHANGED <<surfaceExists, canvas, context, cfgVars, width, height,
                   nDraws, nWrites, fixedSinceRun, frame>>

(***************************************************************************)
(* The owner's writes to the configuration fields.                         *)
(***************************************************************************)
Written(capOrRate) ==
    /\ BetweenTicks
    /\ nWrites < MaxWrites
    /\ nWrites' = nWrites + 1
    /\ lastOp' = "write"
    /\ fixedSinceRun' = (fixedSinceRun /\ ~(capOrRate /\ phase = "running"))
    /\ UNCHANGED <<surfaceExists, canvas, context, sysVars, phase, pc,
                   nDraws, nUpdates, born, frame, lastRun>>

WriteAutoResize ==
    /\ \E v \in BOOLEAN : v # autoResize /\ autoResize' = v
    /\ Written(FALSE)
    /\ UNCHANGED <<heap, backgroundColor, maxParticles, particlesPerUpdate, particleSpeed,
                   particleSize, particleColor, particleOrigin, particleRenderer,
                   particleAnimator>>

WriteBackgroundColor ==
    /\ \E v \in BackgroundVals \cup {DefaultBackgroundColor} :
            v # backgroundColor /\ backgroundColor' = v
    /\ Written(FALSE)
    /\ UNCHANGED <<heap, autoResize, maxParticles, particlesPerUpdate, particleSpeed,
                   particleSize, particleColor, particleOrigin, particleRenderer,
                   particleAnimator>>

WriteMaxParticles ==
    /\ \E v \in MaxParticlesVals : v # maxParticles /\ maxParticles' = v
    /\ Written(TRUE)
    /\ UNCHANGED <<heap, autoResize, backgroundColor, particlesPerUpdate, particleSpeed,
                   particleSize, particleColor, particleOrigin, particleRenderer,
                   particleAnimator>>

WriteParticlesPerUpdate ==
    /\ \E v \in PerUpdateVals : v # particlesPerUpdate /\ particlesPerUpdate' = v
    /\ Written(TRUE)
    /\ UNCHANGED <<heap, autoResize, backgroundColor, maxParticles, particleSpeed,
                   particleSize, particleColor, particleOrigin, particleRenderer,
                   particleAnimator>>

WriteParticleSpeed ==
    /\ \E v \in SpeedVals : v # particleSpeed /\ particleSpeed' = v
    /\ Written(FALSE)
    /\ UNCHANGED <<heap, autoResize, backgroundColor, maxParticles, particlesPerUpdate,
                   particleSize, particleColor, particleOrigin, particleRenderer,
                   particleAnimator>>

\* system.particleSize.x = ..; system.particleSize.y = ..  (the object is kept)
WriteParticleSize ==
    /\ \E v \in SizeVals :
            /\ v # heap.xy[particleSize]
            /\ heap' = [heap EXCEPT !.xy[particleSize] = v]
    /\ Written(FALSE)
    /\ UNCHANGED <<autoResize, backgroundColor, maxParticles, particlesPerUpdate,
                   particleSpeed, particleSize, particleColor, particleOrigin,
                   particleRenderer, particleAnimator>>

\* system.particleColor.r = ..; ...  (the object is kept)
WriteParticleColor ==
    /\ \E v \in ColorVals :
            /\ v # heap.rgba[particleColor]
            /\ heap' = [heap EXCEPT !.rgba[particleColor] = v]
    /\ Written(FALSE)
    /\ UNCHANGED <<autoResize, backgroundColor, maxParticles, particlesPerUpdate,
                   particleSpeed, particleSize, particleColor, particleOrigin,
                   particleRenderer, particleAnimator>>

\* system.particleOrigin = { x : .., y : .. }  (a new object)
WriteParticleOrigin ==
    /\ \E v \in OriginVals :
            /\ v # heap.xy[particleOrigin]
            /\ heap' = NewXY(heap, v)
            /\ particleOrigin' = Len(heap.xy) + 1
    /\ Written(FALSE)
    /\ UNCHANGED <<autoResize, backgroundColor, maxParticles, particlesPerUpdate,
                   particleSpeed, particleSize, particleColor, particleRenderer,
                   particleAnimator>>

WriteParticleRenderer ==
    /\ \E v \in RendererVals : v # particleRenderer /\ particleRenderer' = v
    /\ Written(FALSE)
    /\ UNCHANGED <<heap, autoResize, backgroundColor, maxParticles, particlesPerUpdate,
                   particleSpeed, particleSize, particleColor, particleOrigin,
                   particleAnimator>>

WriteParticleAnimator ==
    /\ \E v \in AnimatorVals : v # particleAnimator /\ particleAnimator' = v
    /\ Written(FALSE)
    /\ UNCHANGED <<heap, autoResize, backgroundColor, maxParticles, particlesPerUpdate,
                   particleSpeed, particleSize, particleColor, particleOrigin,
                   particleRenderer>>

(***************************************************************************)
(* The surface changes size; the owner calls resize().  Both happen        *)
(* between ticks and count as writes.  Assigning the width or the height   *)
(* of a canvas resets its 2D context: the default state, nothing saved.    *)
(***************************************************************************)
SurfaceResize ==
    /\ phase = "running"
    /\ pc = "draw"
    /\ nWrites < MaxWrites
    /\ \E v \in SurfaceSizes : v # canvas /\ canvas' = v
    /\ context' = FreshContext
    /\ nWrites' = nWrites + 1
    /\ lastOp' = "surface"
    /\ UNCHANGED <<surfaceExists, heap, cfgVars, sysVars, phase, pc,
                   nDraws, nUpdates, fixedSinceRun, born, frame, lastRun>>

\* system.resize(), when it changes something
Resize ==
    /\ phase = "running"
    /\ pc = "draw"
    /\ nWrites < MaxWrites
    /\ autoResize \/ canvas # XY(width, height)
    /\ \E c \in {Resized(canvas, autoResize)} :
          /\ canvas' = c
          /\ width' = c.x
          /\ height' = c.y
    /\ context' = IF autoResize THEN FreshContext ELSE context
    /\ nWrites' = nWrites + 1
    /\ lastOp' = "resize"
    /\ UNCHANGED <<surfaceExists, heap, cfgVars, particles, origin, phase, pc,
                   nDraws, nUpdates, fixedSinceRun, born, frame, lastRun>>

Next ==
    \/ Run
    \/ Draw
    \/ Update
    \/ SurfaceResize
    \/ Resize
    \/ WriteAutoResize
    \/ WriteBackgroundColor
    \/ WriteMaxParticles
    \/ WriteParticlesPerUpdate
    \/ WriteParticleSpeed
    \/ WriteParticleSize
    \/ WriteParticleColor
    \/ WriteParticleOrigin
    \/ WriteParticleRenderer
    \/ WriteParticleAnimator

Spec == Init /\ [][Next]_vars

(***************************************************************************)
(* getCanvasPos(mouseevent, canvas).  Its this.x and this.y are properties *)
(* of the global object that nothing else reads; they are not kept.  The   *)
(* page's mousemove handler stores the result as the particle origin.      *)
(***************************************************************************)
getCanvasPos(mouseevent, c) ==
    XY(Q(mouseevent.clientX - CanvasOffset.x, c.x),
       Q(mouseevent.clientY - CanvasOffset.y, c.y))

PointerMove ==
    /\ phase = "running"
    /\ pc = "draw"
    /\ nWrites < MaxWrites
    /\ \E e \in PointerEvents :
          /\ heap' = NewXY(heap, getCanvasPos(e, canvas))
          /\ particleOrigin' = Len(heap.xy) + 1
    /\ nWrites' = nWrites + 1
    /\ lastOp' = "pointer"
    /\ UNCHANGED <<surfaceExists, canvas, context, sysVars, phase, pc,
                   nDraws, nUpdates, fixedSinceRun, born, frame, lastRun,
                   autoResize, backgroundColor, maxParticles, particlesPerUpdate,
                   particleSpeed, particleSize, particleColor, particleRenderer,
                   particleAnimator>>

NextPointer ==
    \/ Run
    \/ SurfaceResize
    \/ PointerMove

SpecPointer == Init /\ [][NextPointer]_vars

(***************************************************************************)
(* rgbaToString over a range of colors: the owner has written a background *)
(* color before run(), and initialize() formats it into the fill style.    *)
(***************************************************************************)
FormatInputs ==
    {RGBA(Q(100 + k, 10), g, b, a) :
        k \in 0..MaxTenths, g \in {QInt(20), Q(41, 2), QInt(255)},
        b \in {QInt(30), Q(149, 5)}, a \in {Q(1, 2), QInt(1), Q(99, 100)}}

InitFormat ==
    /\ surfaceExists = TRUE
    /\ canvas = CanvasSize
    /\ context = FreshContext
    /\ heap = [xy |-> <<DefaultParticleSize, DefaultParticleOrigin, XY(QInt(0), QInt(0))>>,
               rgba |-> <<DefaultParticleColor>>]
    /\ autoResize = FALSE
    /\ backgroundColor \in FormatInputs
    /\ maxParticles = DefaultMaxParticles
    /\ particlesPerUpdate = DefaultParticlesPerUpdate
    /\ particleSpeed = DefaultParticleSpeed
    /\ particleSize = 1
    /\ particleColor = 1
    /\ particleOrigin = 2
    /\ particleRenderer = "round"
    /\ particleAnimator = "default"
    /\ particles = <<>>
    /\ origin = 3
    /\ width = 0
    /\ height = 0
    /\ phase = "new"
    /\ pc = "draw"
    /\ nDraws = 0
    /\ nUpdates = 0
    /\ nWrites = 0
    /\ lastOp = "new"
    /\ fixedSinceRun = TRUE
    /\ born = <<>>
    /\ frame = NoFrame
    /\ lastRun = NoRun

NextFormat == Run

SpecFormat == InitFormat /\ [][NextFormat]_vars

(***************************************************************************)
(* Properties.                                                             *)
(***************************************************************************)
Running == phase = "running"
Live == {particles[i] : i \in 1..Len(particles)}
\* how many times a particle was aged
Age(id) == born[id].nDefault + born[id].nFancy

\* The closed forms of aging, tabulated over the sizes, colors and velocities
\* the templates, the speeds and Math.random() can give, and the number k of
\* agings: s0 * 0.98^k, the fancy color of c0 after k steps, and k * velocity.
SizeAfter ==
    [s \in {DefaultParticleSize} \cup SizeVals, k \in 0..MaxUpdates |->
        XY(QMul(s.x, QPow(SizeDecay, k)), QMul(s.y, QPow(SizeDecay, k)))]
FancyColorAfter ==
    [c \in {DefaultParticleColor} \cup ColorVals, k \in 0..MaxUpdates |->
        RGBA(QMul(c.r, QPow(RedGrowth, k)), QMul(c.g, QPow(GreenBlueDecay, k)),
             QMul(c.b, QPow(GreenBlueDecay, k)), QMul(c.a, QPow(AlphaDecay, k)))]
\* the points particles spawn at: a fraction of a surface size
SpawnPoints ==
    {XY(QMul(QInt(c.x), o.x), QMul(QInt(c.y), o.y)) :
        c \in {CanvasSize, Resized(CanvasSize, TRUE)} \cup SurfaceSizes,
        o \in {DefaultParticleOrigin} \cup OriginVals}
PosTable ==
    [p0 \in SpawnPoints,
     v \in {Velocity(r[1], r[2], speed) :
                r \in RandomVals, speed \in {DefaultParticleSpeed} \cup SpeedVals},
     k \in 0..MaxUpdates |->
        XY(QAdd(p0.x, QMul(QInt(k), v.x)), QAdd(p0.y, QMul(QInt(k), v.y)))]
\* the position p0 after k steps of velocity v
PosAfter(p0, v, k) == PosTable[p0, v, k]

\* C1: with maxParticles and particlesPerUpdate non-negative and not written
\* since run(), the live count after n updates is min(n * particlesPerUpdate,
\* maxParticles).
C1_CountAfterTicks ==
    (Running /\ fixedSinceRun /\ maxParticles >= 0 /\ particlesPerUpdate >= 0)
        => Len(particles) = Min(nUpdates * particlesPerUpdate, maxParticles)

\* two updates with a batch larger than the cap: the count is the cap
C1_Witness ==
    /\ Running /\ fixedSinceRun /\ nUpdates = 2
    /\ maxParticles > 0 /\ particlesPerUpdate > maxParticles
    /\ Len(particles) = maxParticles

\* C2 as stated: between the operations of a running system (before each draw(),
\* after each update()) the live count is at most the current maxParticles.
C2_NeverAboveCap ==
    (Running /\ pc = "draw") => Len(particles) <= maxParticles

\* C2 as amended: in the state each update() returns in, the live count is at
\* most maxParticles.
C2_CapAfterUpdate ==
    lastOp = "update" => Len(particles) <= maxParticles

\* an update() after a write between ticks has trimmed the pool down to the cap
C2_Witness ==
    /\ lastOp = "update" /\ ~fixedSinceRun
    /\ lastRun.evicted # <<>>
    /\ Len(particles) = maxParticles /\ maxParticles > 0

\* C3: eviction is FIFO: the evicted particles are older than every live one and
\* leave in spawn order, and the live collection is the most recently spawned
\* particles in spawn order; an update() keeps as many of them as the cap allows.
C3_Fifo ==
    /\ \A i \in 1..Len(particles) : particles[i].id = Len(born) - Len(particles) + i
    /\ lastOp = "update" =>
          Len(particles) = Min(Len(lastRun.aged) + Len(lastRun.spawned), maxParticles)
    /\ \A i \in 1..Len(lastRun.evicted) :
          /\ \A q \in Live : lastRun.evicted[i] < q.id
          /\ i > 1 => lastRun.evicted[i - 1] < lastRun.evicted[i]

\* an update() that evicted some particles and kept others
C3_Witness ==
    /\ lastOp = "update"
    /\ lastRun.evicted # <<>>
    /\ Len(particles) >= 2

\* C4 as stated: after initialize() every update() and every draw() returns,
\* whatever the owner wrote to the configuration fields.
C4_TickOperationsTotal ==
    phase # "hung"

\* C5: without the surface run() fails in initialize(): nothing is ever drawn,
\* updated or spawned; with the surface run() does not fail.
C5_MissingSurface ==
    /\ ~surfaceExists =>
          /\ phase \in {"new", "failed"}
          /\ nDraws = 0 /\ nUpdates = 0
          /\ particles = <<>> /\ born = <<>>
          /\ frame = NoFrame
    /\ phase = "failed" => ~surfaceExists
    /\ (lastOp = "run" /\ surfaceExists) => Running

\* run() was called without the surface
C5_Witness ==
    phase = "failed" /\ lastOp = "run" /\ nWrites > 0

\* the values of the objects a particle refers to
PosOf(H, p) == H.xy[p.pos]
SizeOf(H, p) == H.xy[p.size]
ColorOf(H, p) == H.rgba[p.color]
VelocityOf(H, p) == H.xy[p.velocity]

\* what draw() painted is what the fields hold now: the background color, the
\* animator (its composite mode) and the renderer (its shape)
DrawUsesFields ==
    /\ frame.fillStyle = rgbaToString(backgroundColor)
    /\ frame.animator = particleAnimator
    /\ frame.renderer = particleRenderer
    /\ Len(frame.painted) = Len(particles)
    /\ \A i \in 1..Len(frame.painted) :
          /\ frame.painted[i].composite =
                (IF particleAnimator = "fancy" THEN "lighter" ELSE DefaultComposite)
          /\ frame.painted[i].shape = (IF particleRenderer = "square" THEN "rect" ELSE "arc")

\* what update() did is what the fields hold now
UpdateUsesFields ==
    /\ lastRun.animator = particleAnimator
    /\ Len(lastRun.spawned) = SpawnCount(particlesPerUpdate)
    /\ Len(particles) <= maxParticles
    /\ \A i \in 1..Len(lastRun.spawned) :
          LET b == born[lastRun.spawned[i]]
          IN  /\ b.size = heap.xy[particleSize]
              /\ b.color = heap.rgba[particleColor]
              /\ b.pos = XY(QMul(QInt(width), heap.xy[particleOrigin].x),
                            QMul(QInt(height), heap.xy[particleOrigin].y))
              /\ \E r \in RandomVals : b.velocity = Velocity(r[1], r[2], particleSpeed)

\* C6 as stated: a field written between two ticks takes effect on the next
\* tick: the draw() paints the background with backgroundColor and draws through
\* particleAnimator and particleRenderer, and the update() uses particleAnimator,
\* particlesPerUpdate, maxParticles, particleSpeed, particleSize, particleColor
\* and particleOrigin, as they are then.
C6_WritesTakeEffect ==
    /\ lastOp = "draw" => DrawUsesFields
    /\ lastOp = "update" => UpdateUsesFields

\* the references a particle holds into heap.xy
XYRefs(p) == {p.pos, p.size, p.velocity}

\* no object of a particle is an object of another particle or a template
NoSharing(list) ==
    /\ \A i \in 1..Len(list) :
          /\ Cardinality(XYRefs(list[i])) = 3
          /\ XYRefs(list[i]) \cap {particleSize, particleOrigin, origin} = {}
          /\ list[i].color # particleColor
    /\ \A i, j \in 1..Len(list) :
          i # j => /\ XYRefs(list[i]) \cap XYRefs(list[j]) = {}
                   /\ list[i].color # list[j].color

\* the values of p in H2 are those in H1 aged once by animator
AgedOnce(H1, H2, p, animator) ==
    /\ PosOf(H2, p) = XY(QAdd(PosOf(H1, p).x, VelocityOf(H1, p).x),
                         QAdd(PosOf(H1, p).y, VelocityOf(H1, p).y))
    /\ SizeOf(H2, p) = XY(QMul(SizeOf(H1, p).x, SizeDecay), QMul(SizeOf(H1, p).y, SizeDecay))
    /\ VelocityOf(H2, p) = VelocityOf(H1, p)
    /\ ColorOf(H2, p) =
          IF animator = "fancy"
          THEN RGBA(QMul(ColorOf(H1, p).r, RedGrowth), QMul(ColorOf(H1, p).g, GreenBlueDecay),
                    QMul(ColorOf(H1, p).b, GreenBlueDecay), QMul(ColorOf(H1, p).a, AlphaDecay))
          ELSE ColorOf(H1, p)

SameValues(H1, H2, p) ==
    /\ PosOf(H2, p) = PosOf(H1, p)
    /\ SizeOf(H2, p) = SizeOf(H1, p)
    /\ ColorOf(H2, p) = ColorOf(H1, p)
    /\ VelocityOf(H2, p) = VelocityOf(H1, p)

\* one step keeps the particles independent of each other and of the templates
IndependentStep ==
    /\ NoSharing(particles')
    \* an update() ages each particle that stays once, by its own velocity, and
    \* leaves the templates as they were
    /\ lastOp' \in {"update", "hang"} =>
          /\ \A i \in 1..Len(particles) :
                particles[i] \in {particles'[j] : j \in 1..Len(particles')}
                    => AgedOnce(heap, heap', particles[i], particleAnimator)
          /\ heap'.xy[particleSize] = heap.xy[particleSize]
          /\ heap'.xy[particleOrigin] = heap.xy[particleOrigin]
          /\ heap'.rgba[particleColor] = heap.rgba[particleColor]
    \* any other step (a write of the owner, a draw) changes no live particle
    /\ lastOp' \notin {"update", "hang"} =>
          /\ particles' = particles
          /\ \A i \in 1..Len(particles) : SameValues(heap, heap', particles[i])

\* C7: every particle owns its position, size and color: aging a particle
\* changes no other particle and no template, and a write to a template changes
\* no live particle.
C7_IndependentCopies == [][IndependentStep]_vars

\* two live particles of different ages, spawned of different size templates
C7_Witness ==
    /\ lastOp = "update"
    /\ \E p, q \in Live :
          /\ Age(p.id) >= 1 /\ Age(q.id) = 0
          /\ born[p.id].size # born[q.id].size
          /\ born[q.id].size = heap.xy[particleSize]

\* C8 as stated: run() initializes once and then repeats draw(), update() for
\* ever: nothing ends the loop, the k-th draw() shows the pool left by k - 1
\* updates, and the updates and draws alternate.
TickStep ==
    /\ Running => phase' = "running"
    /\ lastOp' = "run" => phase = "new"
    /\ lastOp' = "draw" =>
          /\ lastOp \in {"run", "update", "write", "surface", "resize"}
          /\ nDraws' = nUpdates' + 1
          /\ frame'.updates = nDraws' - 1
          /\ [i \in 1..Len(frame'.painted) |-> frame'.painted[i].id] = Ids(particles)
          /\ (nDraws' = 1 => frame'.painted = <<>>)
    /\ lastOp' = "update" => (lastOp = "draw" /\ nUpdates' = nDraws')

C8_LoopForever == [][TickStep]_vars

\* C9: the velocity of a live particle is the one it was given when spawned.
C9_VelocityFixed ==
    \A p \in Live : VelocityOf(heap, p) = born[p.id].velocity

\* a moving particle aged by the default animator and by the fancy animator
C9_Witness ==
    \E p \in Live :
        /\ born[p.id].nDefault >= 1 /\ born[p.id].nFancy >= 1
        /\ born[p.id].velocity.x # QInt(0)
        /\ PosOf(heap, p) # born[p.id].pos

\* C10: a live particle aged k times, by the default animator alone, has size
\* s0 * 0.98^k on each axis, position p0 + k * velocity and its color of spawn.
C10_DefaultAging ==
    \A p \in Live :
        LET b == born[p.id]
            k == b.nDefault
        IN  b.nFancy = 0 =>
              /\ SizeOf(heap, p) = SizeAfter[b.size, k]
              /\ PosOf(heap, p) = PosAfter(b.pos, b.velocity, k)
              /\ ColorOf(heap, p) = b.color

\* a moving particle, higher than wide, aged twice by the default animator
C10_Witness ==
    \E p \in Live :
        /\ born[p.id].nFancy = 0 /\ born[p.id].nDefault >= 2
        /\ born[p.id].velocity.x # QInt(0)
        /\ born[p.id].size.x # born[p.id].size.y

\* C11: a live particle aged k times, by the fancy animator alone, has alpha
\* a0 * 0.99^k, red r0 * 1.02^k, green g0 * 0.98^k and blue b0 * 0.98^k, none of
\* them clamped, and the size and position the default animator gives.
C11_FancyAging ==
    \A p \in Live :
        LET b == born[p.id]
            k == b.nFancy
        IN  b.nDefault = 0 =>
              /\ ColorOf(heap, p) = FancyColorAfter[b.color, k]
              /\ SizeOf(heap, p) = SizeAfter[b.size, k]
              /\ PosOf(heap, p) = PosAfter(b.pos, b.velocity, k)

\* a white particle aged twice by the fancy animator: its red is above 255
C11_Witness ==
    \E p \in Live :
        /\ born[p.id].nDefault = 0 /\ born[p.id].nFancy >= 2
        /\ born[p.id].color.r = QInt(255)
        /\ ~QLeq(ColorOf(heap, p).r, QInt(255))
        /\ ColorOf(heap, p).a # born[p.id].color.a

\* C12 as stated: every particle an update() spawns is at (W * particleOrigin.x,
\* H * particleOrigin.y), W and H being the surface's width and height at that
\* tick.
C12_OriginTracksSurface ==
    lastOp = "update" =>
        \A i \in 1..Len(lastRun.spawned) :
            born[lastRun.spawned[i]].pos =
                XY(QMul(QInt(canvas.x), heap.xy[particleOrigin].x),
                   QMul(QInt(canvas.y), heap.xy[particleOrigin].y))

\* C12 as amended: W and H are the width and height cached by the last resize(),
\* the one of initialize() or a later one, which are the surface's at that call.
C12_OriginTracksResize ==
    /\ lastOp = "update" =>
          \A i \in 1..Len(lastRun.spawned) :
              born[lastRun.spawned[i]].pos =
                  XY(QMul(QInt(width), heap.xy[particleOrigin].x),
                     QMul(QInt(height), heap.xy[particleOrigin].y))
    /\ (lastOp = "resize" \/ (lastOp = "run" /\ Running)) => XY(width, height) = canvas
    /\ (Running /\ XY(width, height) # canvas) => canvas \in SurfaceSizes

\* particles spawned after the surface changed size and resize() was called
C12_Witness ==
    /\ lastOp = "update"
    /\ lastRun.spawned # <<>>
    /\ canvas \in SurfaceSizes
    /\ XY(width, height) = canvas

\* the integer nearest to a, the upper one of two equally near
Nearest(a, R) == 2 * R * a.d - a.d <= 2 * a.n /\ 2 * a.n < 2 * R * a.d + a.d

\* C13: rgbaToString gives "rgba(R, G, B, a)" with R, G, B the channels rounded
\* to the nearest integer and a passed through unrounded; {10,20,30,0.5} gives
\* "rgba(10, 20, 30, 0.5)", r = 10.6 gives R = 11; the color is not modified.
FormatStep ==
    (phase = "new" /\ phase' = "running") =>
        LET c == backgroundColor
            str == context'.fillStyle
        IN  /\ Len(str) = 5
            /\ str[1] = "rgba("
            /\ Nearest(c.r, str[2])
            /\ Nearest(c.g, str[3])
            /\ Nearest(c.b, str[4])
            /\ str[5] = c.a
            /\ c = RGBA(QInt(10), QInt(20), QInt(30), Q(1, 2))
                  => str = <<"rgba(", 10, 20, 30, Q(1, 2)>>
            /\ c.r = Q(53, 5) => str[2] = 11
            /\ backgroundColor' = c
            /\ heap' = heap

C13_Format == [][FormatStep]_vars

\* initialize() has formatted a color whose red channel is 10.6
C13_Witness ==
    /\ phase = "running"
    /\ backgroundColor.r = Q(53, 5)
    /\ context.fillStyle[2] = 11
    /\ context.fillStyle[5] = backgroundColor.a

\* C14: getCanvasPos returns x = (clientX - offsetLeft) / width and
\* y = (clientY - offsetTop) / height, both in [0,1]; event (110,60), offset
\* (10,10), surface 200x100 gives {x: 0.5, y: 0.5}.
C14_CanvasPos ==
    lastOp = "pointer" =>
        LET r == heap.xy[particleOrigin]
        IN  /\ \E e \in PointerEvents :
                  /\ r.x.n * canvas.x = (e.clientX - CanvasOffset.x) * r.x.d
                  /\ r.y.n * canvas.y = (e.clientY - CanvasOffset.y) * r.y.d
            /\ QLeq(QInt(0), r.x) /\ QLeq(r.x, QInt(1))
            /\ QLeq(QInt(0), r.y) /\ QLeq(r.y, QInt(1))
            /\ getCanvasPos([clientX |-> 110, clientY |-> 60], XY(200, 100)) = XY(Q(1, 2), Q(1, 2))

\* the formula and the example alone, without the range
C14_CanvasPosFormula ==
    lastOp = "pointer" =>
        LET r == heap.xy[particleOrigin]
        IN  /\ \E e \in PointerEvents :
                  /\ r.x.n * canvas.x = (e.clientX - CanvasOffset.x) * r.x.d
                  /\ r.y.n * canvas.y = (e.clientY - CanvasOffset.y) * r.y.d
            /\ getCanvasPos([clientX |-> 110, clientY |-> 60], XY(200, 100)) = XY(Q(1, 2), Q(1, 2))

\* one update() ages the particles it found and leaves those it spawns unaged
AgingBeforeSpawning ==
    (lastOp' = "update" /\ nUpdates' = nUpdates + 1) =>
        \A j \in 1..Len(particles') :
            LET p == particles'[j]
            IN  IF p \in Live
                THEN AgedOnce(heap, heap', p, particleAnimator)
                ELSE /\ PosOf(heap', p) =
                           XY(QMul(QInt(width), heap.xy[particleOrigin].x),
                              QMul(QInt(height), heap.xy[particleOrigin].y))
                     /\ PosOf(heap', p) = heap'.xy[origin']
                     /\ SizeOf(heap', p) = heap.xy[particleSize]
                     /\ ColorOf(heap', p) = heap.rgba[particleColor]

\* C15: within one update() the animator's update is applied once to each
\* particle that was live when it began and to none it spawns: right after it
\* every surviving particle spawned in it is at the absolute spawn origin with
\* the size and the color of the templates.
C15_AgingBeforeSpawning == [][AgingBeforeSpawning]_vars

\* an update() under the fancy animator that aged a survivor and spawned others
C15_Witness ==
    /\ lastOp = "update"
    /\ lastRun.animator = "fancy"
    /\ \E p, q \in Live :
          /\ p.id \in IdSet(particles) \cap {lastRun.aged[i] : i \in 1..Len(lastRun.aged)}
          /\ q.id \in {lastRun.spawned[i] : i \in 1..Len(lastRun.spawned)}
          /\ SizeOf(heap, p) # born[p.id].size
          /\ ColorOf(heap, p) # born[p.id].color
          /\ SizeOf(heap, q) = heap.xy[particleSize]
          /\ ColorOf(heap, q) = heap.rgba[particleColor]
          /\ PosOf(heap, q) = heap.xy[origin]

\* C16 as stated: when a draw() clears and repaints the surface, the composite
\* mode and the fill style are those initialize() saved, and under the default
\* animator every particle is painted in the default composite mode.
C16_StateOfInitialize ==
    lastOp = "draw" =>
        /\ frame.composite = frame.saved.composite
        /\ frame.fillStyle = frame.saved.fillStyle
        /\ frame.animator = "default" =>
              \A i \in 1..Len(frame.painted) : frame.painted[i].composite = DefaultComposite

\* what holds of it: no frame leaves its composite mode or its particles' fill
\* style to the next; the background is painted in the default composite mode,
\* in the style initialize() saved or in a reset context's default style
C16_NoLeakBetweenFrames ==
    lastOp = "draw" =>
        /\ frame.composite = DefaultComposite
        /\ frame.fillStyle \in {frame.saved.fillStyle, DefaultFillStyle}
        /\ frame.animator = "default" =>
              \A i \in 1..Len(frame.painted) : frame.painted[i].composite = DefaultComposite

\* what a renderer paints of p: a square at its position, or a circle in the
\* square's corner, in the particle's color
PaintedAs(H, p, shot, renderer) ==
    LET radius == QMul(QMax(SizeOf(H, p).x, SizeOf(H, p).y), Half)
    IN  /\ shot.id = p.id
        /\ shot.style = <<"rgba(", QRound(ColorOf(H, p).r), QRound(ColorOf(H, p).g),
                          QRound(ColorOf(H, p).b), ColorOf(H, p).a>>
        /\ IF renderer = "square"
           THEN /\ shot.shape = "rect"
                /\ <<shot.x, shot.y>> = <<PosOf(H, p).x, PosOf(H, p).y>>
                /\ <<shot.w, shot.h>> = <<SizeOf(H, p).x, SizeOf(H, p).y>>
           ELSE /\ shot.shape = "arc"
                /\ <<shot.x, shot.y>> = <<QAdd(PosOf(H, p).x, radius), QAdd(PosOf(H, p).y, radius)>>
                /\ <<shot.w, shot.h>> = <<radius, radius>>

DrawStep ==
    (lastOp' = "draw" /\ nDraws' = nDraws + 1) =>
        /\ Len(frame'.painted) = Len(particles)
        /\ \A i \in 1..Len(particles) :
              PaintedAs(heap, particles[i], frame'.painted[i], particleRenderer)
        /\ particles' = particles
        /\ heap' = heap

\* C17: each draw() hands every live particle to the active renderer exactly
\* once, in collection order, under both animators, and changes neither the
\* collection nor any field of any particle.
C17_DrawEachOnce == [][DrawStep]_vars

\* a frame of three particles under the fancy animator
C17_Witness ==
    /\ lastOp = "draw"
    /\ frame.animator = "fancy"
    /\ Len(frame.painted) = 3
    /\ [i \in 1..3 |-> frame.painted[i].id] = Ids(particles)
    /\ Cardinality(IdSet(particles)) = 3

\* the least k with k * b >= a
Ceil(a, b) == (a + b - 1) \div b

\* the first particle of the batch a particle was spawned in, when the rate
\* has not changed since run()
BatchStart(id) == (born[id].at - 1) * particlesPerUpdate + 1

\* C18: with particlesPerUpdate >= 1 and maxParticles >= 0 fixed, a particle is
\* evicted by the ceil(maxParticles / particlesPerUpdate)-th update() after the
\* one that spawned it; if particlesPerUpdate <= maxParticles it is drawn before
\* it is evicted, its first draw showing it unaged; if particlesPerUpdate >
\* maxParticles the first particlesPerUpdate - maxParticles particles of a batch
\* are evicted by the update() that spawned them and never drawn.
C18_Lifetime ==
    (Running /\ fixedSinceRun /\ particlesPerUpdate >= 1 /\ maxParticles >= 0) =>
        \A id \in 1..Len(born) :
            LET b == born[id]
                live == id \in IdSet(particles)
            IN  /\ nUpdates - b.at >= Ceil(maxParticles, particlesPerUpdate) => ~live
                /\ particlesPerUpdate <= maxParticles =>
                      /\ b.shown \in {-1, 0}
                      /\ b.shown = -1 => (live /\ b.at = nUpdates /\ pc = "draw")
                /\ (particlesPerUpdate > maxParticles
                      /\ id - BatchStart(id) < particlesPerUpdate - maxParticles) =>
                      /\ ~live
                      /\ b.shown = -1
                      /\ (lastOp = "update" /\ b.at = nUpdates) =>
                            \E i \in 1..Len(lastRun.evicted) : lastRun.evicted[i] = id

\* a particle drawn unaged and evicted by the second update() after its own,
\* with a rate of 2 and a cap of 3
C18_Witness ==
    /\ Running /\ fixedSinceRun
    /\ particlesPerUpdate = 2 /\ maxParticles = 3
    /\ \E id \in 1..Len(born) :
          /\ born[id].at = nUpdates - 2
          /\ born[id].shown = 0
          /\ id \notin IdSet(particles)
          /\ \E i \in 1..Len(lastRun.evicted) : lastRun.evicted[i] = id

\* C19: between operations every live particle has been aged once by each
\* update() after the one that spawned it, as its position and size show, and
\* the collection runs from the most aged to the least aged, batch by batch.
C19_AgedSinceSpawn ==
    Running =>
        /\ \A p \in Live :
              LET b == born[p.id]
                  k == nUpdates - b.at
              IN  /\ Age(p.id) = k
                  /\ SizeOf(heap, p) = SizeAfter[b.size, k]
                  /\ PosOf(heap, p) = PosAfter(b.pos, b.velocity, k)
        /\ \A i, j \in 1..Len(particles) :
              i < j => /\ Age(particles[i].id) >= Age(particles[j].id)
                       /\ born[particles[i].id].at <= born[particles[j].id].at

\* three live particles of two batches: the front one aged twice, the other
\* two, of one batch, aged once
C19_Witness ==
    /\ Running
    /\ Len(particles) = 3
    /\ Age(particles[1].id) = 2
    /\ Age(particles[2].id) = 1
    /\ Age(particles[3].id) = 1
    /\ SizeOf(heap, particles[1]) # SizeOf(heap, particles[2])
    /\ SizeOf(heap, particles[2]) = SizeOf(heap, particles[3])

====
